---- MODULE Spec2Model ----
(***************************************************************************)
(* Model of package versioner (src/version.go): BuildContext.Version and   *)
(* its helpers classify, addPrefix, latestFinal and nextPatch.             *)
(*                                                                         *)
(* Go strings are modelled as sequences of one-character strings, so that  *)
(* prefix tests, trimming, regular-expression matching, byte-wise          *)
(* comparison and number formatting/parsing are computed, not assumed.     *)
(* Go's int is 64 bits wide; the model keeps its two's-complement          *)
(* wrap-around and strconv.Atoi's clamping at a reduced width IntBits, so  *)
(* that patch numbers at and beyond the largest int are among the tags.    *)
(***************************************************************************)
EXTENDS Integers, Sequences, FiniteSets, TLC

VARIABLES ctx, now, calls, kind, at, first, out, published

vars == <<ctx, now, calls, kind, at, first, out, published>>

(* ------------------------------ bounds -------------------------------- *)

\* width of int in the model (Go: 64)
IntBits == 7
\* longest tag list returned by the lookup in the tag slice of the inputs
MaxTags == 2
\* number of Version calls made on one BuildContext
MaxCalls == 2
\* number of versions published as tags, one build after the other
MaxPublish == 2

(* ------------------------------ strings ------------------------------- *)

\* the characters used, in ascending byte order
ByteOrder ==
  <<" ", "-", ".", "/", "0", "1", "2", "3", "4", "5", "6", "7", "8", "9", ":",
    "A", "B", "D", "S", "a", "b", "c", "d", "e", "f", "g", "h", "i", "k", "l",
    "m", "n", "o", "p", "r", "s", "t", "u", "v", "x", "y">>

Ord(c) == CHOOSE i \in 1..Len(ByteOrder) : ByteOrder[i] = c

Digits == <<"0", "1", "2", "3", "4", "5", "6", "7", "8", "9">>

IsDigit(c) == \E i \in 1..Len(Digits) : Digits[i] = c

DigitVal(c) == (CHOOSE i \in 1..Len(Digits) : Digits[i] = c) - 1

AllDigits(s) == \A i \in 1..Len(s) : IsDigit(s[i])

\* Go's s > t on strings: byte-wise lexicographic order
RECURSIVE StrGreater(_, _)
StrGreater(s, t) ==
  IF s = <<>> THEN FALSE
  ELSE IF t = <<>> THEN TRUE
  ELSE IF Head(s) # Head(t) THEN Ord(Head(s)) > Ord(Head(t))
  ELSE StrGreater(Tail(s), Tail(t))

HasPrefix(s, p) == Len(s) >= Len(p) /\ SubSeq(s, 1, Len(p)) = p

HasSuffix(s, p) == Len(s) >= Len(p) /\ SubSeq(s, Len(s) - Len(p) + 1, Len(s)) = p

\* strings.TrimPrefix: s without ONE leading p, s itself when it has none
TrimPrefix(s, p) == IF HasPrefix(s, p) THEN SubSeq(s, Len(p) + 1, Len(s)) ELSE s

\* strings.TrimSuffix: s without ONE trailing p, s itself when it has none
TrimSuffix(s, p) == IF HasSuffix(s, p) THEN SubSeq(s, 1, Len(s) - Len(p)) ELSE s

(* ------------------------------ integers ------------------------------ *)

MaxInt == 2 ^ (IntBits - 1) - 1

\* two's-complement wrap-around of int arithmetic
Wrap(n) == ((n + 2 ^ (IntBits - 1)) % (2 ^ IntBits)) - 2 ^ (IntBits - 1)

\* decimal digits of a natural number
RECURSIVE NatDigits(_)
NatDigits(n) ==
  IF n < 10 THEN <<Digits[n + 1]>>
  ELSE NatDigits(n \div 10) \o <<Digits[(n % 10) + 1]>>

\* fmt's %d
FormatInt(n) == IF n < 0 THEN <<"-">> \o NatDigits(0 - n) ELSE NatDigits(n)

\* zero-padded field of a date layout
RECURSIVE Pad(_, _)
Pad(s, w) == IF Len(s) >= w THEN s ELSE Pad(<<"0">> \o s, w)

\* value of a digit string, saturating just above MaxInt
RECURSIVE DigitsValue(_, _)
DigitsValue(s, acc) ==
  IF s = <<>> THEN acc
  ELSE LET v == acc * 10 + DigitVal(Head(s))
       IN  DigitsValue(Tail(s), IF v > MaxInt THEN MaxInt + 1 ELSE v)

\* strconv.Atoi on a non-empty digit string: the value, or on a range error
\* the largest int together with the error
Atoi(s) ==
  LET v == DigitsValue(s, 0)
  IN  IF v > MaxInt THEN [n |-> MaxInt, ok |-> FALSE] ELSE [n |-> v, ok |-> TRUE]

(* ------------------------------ errors -------------------------------- *)

NilErr == [nil |-> TRUE, msg |-> <<>>]

Errorf(msg) == [nil |-> FALSE, msg |-> msg]

(* ------------------------------ time ---------------------------------- *)

\* time.Time.Format("2006.01.02")
FormatDate(t) ==
  Pad(NatDigits(t.year), 4) \o <<".">> \o Pad(NatDigits(t.month), 2)
    \o <<".">> \o Pad(NatDigits(t.day), 2)

(* ------------------------------ classify ------------------------------ *)

typeFeature == 0
typeDefault == 1
typeRelease == 2

ReleaseSlash == <<"r", "e", "l", "e", "a", "s", "e", "/">>

classifySwapped(def, br) ==
  IF HasPrefix(br, ReleaseSlash) THEN typeRelease
  ELSE IF br = def THEN typeDefault
  ELSE typeFeature

classify(def, br) ==
  IF br = def THEN typeDefault
  ELSE IF HasPrefix(br, ReleaseSlash) THEN typeRelease
  ELSE typeFeature

(* ------------------------------ addPrefix ----------------------------- *)

addPrefixNoTrim(v, p) == IF p = <<>> THEN v ELSE p \o <<"-">> \o v

addPrefix(v, p) ==
  IF p = <<>> THEN v ELSE TrimSuffix(p, <<"-">>) \o <<"-">> \o v

(* ------------------------------ patterns ------------------------------ *)

\* \d{4}\.\d{2}\.\d{2}\.\d+ matched against the whole of s
IsDateBuild(s) ==
  /\ Len(s) >= 12
  /\ AllDigits(SubSeq(s, 1, 4))
  /\ s[5] = "."
  /\ AllDigits(SubSeq(s, 6, 7))
  /\ s[8] = "."
  /\ AllDigits(SubSeq(s, 9, 10))
  /\ s[11] = "."
  /\ AllDigits(SubSeq(s, 12, Len(s)))

\* finalTagRE.MatchString
finalTagRE(t) == IsDateBuild(t)

\* relBranchRE.FindStringSubmatch: <<whole match, base>>, or <<>> without a match
ReleaseV == <<"r", "e", "l", "e", "a", "s", "e", "/", "v">>

relBranchREUnanchored(br) ==
  IF HasPrefix(br, ReleaseV)
  THEN <<br, SubSeq(br, Len(ReleaseV) + 1, Len(br))>>
  ELSE <<>>

relBranchRE(br) ==
  IF HasPrefix(br, ReleaseV) /\ IsDateBuild(SubSeq(br, Len(ReleaseV) + 1, Len(br)))
  THEN <<br, SubSeq(br, Len(ReleaseV) + 1, Len(br))>>
  ELSE <<>>

\* regexp.QuoteMeta: every character of s stands for itself
QuoteMeta(s) == [i \in 1..Len(s) |-> [lit |-> TRUE, ch |-> s[i]]]

MatchAtoms(atoms, t) ==
  /\ Len(t) >= Len(atoms)
  /\ \A i \in 1..Len(atoms) : atoms[i].lit => t[i] = atoms[i].ch

\* ^<atoms>\.(\d+)$ .FindStringSubmatch(t)
patchRE(atoms, t) ==
  LET k == Len(atoms)
  IN  IF /\ Len(t) >= k + 2
         /\ MatchAtoms(atoms, t)
         /\ t[k + 1] = "."
         /\ AllDigits(SubSeq(t, k + 2, Len(t)))
      THEN <<t, SubSeq(t, k + 2, Len(t))>>
      ELSE <<>>

(* ------------------------------ latestFinal --------------------------- *)

\* the loop of latestFinal over ts, from the value of last so far
RECURSIVE lastFinalTag(_, _)
lastFinalTag(ts, last) ==
  IF ts = <<>> THEN last
  ELSE lastFinalTag(Tail(ts),
         IF finalTagRE(Head(ts)) /\ StrGreater(Head(ts), last)
         THEN Head(ts) ELSE last)

\* the first tag that matches, "" without one
RECURSIVE firstFinalTag(_)
firstFinalTag(ts) ==
  IF ts = <<>> THEN <<>>
  ELSE IF finalTagRE(Head(ts)) THEN Head(ts)
  ELSE firstFinalTag(Tail(ts))

latestFinalFirstMatch(lookup, wall) ==
  LET last == firstFinalTag(lookup.tags)
  IN  IF last = <<>> THEN FormatDate(wall) \o <<".", "0">> ELSE last

\* lookup is the result of the lookup call; wall is what time.Now() reads
latestFinal(lookup, wall) ==
  LET last == lastFinalTag(lookup.tags, <<>>)
  IN  IF last = <<>> THEN FormatDate(wall) \o <<".", "0">> ELSE last

(* ------------------------------ nextPatch ----------------------------- *)

\* the loop of nextPatch over ts, from the value of max so far
RECURSIVE maxPatch(_, _, _)
maxPatch(ts, base, max) ==
  IF ts = <<>> THEN max
  ELSE LET mm == patchRE(QuoteMeta(base), Head(ts))
           n  == IF Len(mm) = 2 THEN Atoi(mm[2]).n ELSE 0
       IN  maxPatch(Tail(ts), base,
             IF Len(mm) = 2 /\ n > max THEN n ELSE max)

InvalidReleaseBranch ==
  <<"i", "n", "v", "a", "l", "i", "d", " ", "r", "e", "l", "e", "a", "s", "e",
    " ", "b", "r", "a", "n", "c", "h", ":", " ">>

nextPatch(br, lookup) ==
  LET m == relBranchRE(br)
  IN  IF Len(m) # 2
      THEN [base |-> <<>>, patch |-> 0, err |-> Errorf(InvalidReleaseBranch \o br)]
      ELSE [base  |-> m[2],
            patch |-> Wrap(maxPatch(lookup.tags, m[2], 0) + 1),
            err   |-> NilErr]

(* ------------------------------ Version ------------------------------- *)

appendSuffixUntrimmed(v, suffix) ==
  IF suffix # <<>> THEN v \o <<"-">> \o suffix ELSE v

\* the suffix step of a feature build
appendSuffix(v, suffix) ==
  LET suf == TrimPrefix(suffix, <<"-">>)
  IN  IF suf # <<>> THEN v \o <<"-">> \o suf ELSE v

\* Version with the lookup made, and its error returned, before the switch
VersionLookupFirst(c, wall) ==
  LET k == classify(c.Config.DefaultBranch, c.Branch)
  IN  IF ~c.LookupTags.err.nil
      THEN [ver |-> <<>>, err |-> c.LookupTags.err]
      ELSE IF k = typeDefault
      THEN [ver |-> addPrefix(FormatDate(c.Time) \o <<".">> \o c.PipelineID,
                              c.Config.Prefix),
            err |-> NilErr]
      ELSE IF k = typeRelease
      THEN LET r == nextPatch(c.Branch, c.LookupTags)
           IN  IF ~r.err.nil
               THEN [ver |-> <<>>, err |-> r.err]
               ELSE [ver |-> addPrefix(r.base \o <<".">> \o FormatInt(r.patch),
                                       c.Config.Prefix),
                     err |-> NilErr]
      ELSE LET base == latestFinal(c.LookupTags, wall)
               v    == base \o <<".">> \o c.PipelineID
           IN  [ver |-> addPrefix(appendSuffix(v, c.Config.FeatureSuffix),
                                  c.Config.Prefix),
                err |-> NilErr]

\* c is the BuildContext, with c.LookupTags the result its lookup returns;
\* wall is the date time.Now() reads while the call runs
Version(c, wall) ==
  LET k == classify(c.Config.DefaultBranch, c.Branch)
  IN  IF k = typeDefault
      THEN [ver |-> addPrefix(FormatDate(c.Time) \o <<".">> \o c.PipelineID,
                              c.Config.Prefix),
            err |-> NilErr]
      ELSE IF k = typeRelease
      THEN LET r == nextPatch(c.Branch, c.LookupTags)
           IN  IF ~r.err.nil
               THEN [ver |-> <<>>, err |-> r.err]
               ELSE [ver |-> addPrefix(r.base \o <<".">> \o FormatInt(r.patch),
                                       c.Config.Prefix),
                     err |-> NilErr]
      ELSE LET base == latestFinal(c.LookupTags, wall)
               v    == base \o <<".">> \o c.PipelineID
           IN  [ver |-> addPrefix(appendSuffix(v, c.Config.FeatureSuffix),
                                  c.Config.Prefix),
                err |-> NilErr]

(* ------------------------------ inputs -------------------------------- *)

Main == <<"m", "a", "i", "n">>
FeatPay == <<"f", "e", "a", "t", "/", "p", "a", "y">>

\* the release base of the inputs, its branch, and branches that are not
\* release/v<base>: no base, a base with a patch field, the undotted date
\* layout, no "v"
BaseB == <<"2", "0", "2", "5", ".", "0", "4", ".", "2", "8", ".", "1", "0", "0">>
RelB == ReleaseV \o BaseB
RelBad == <<"r", "e", "l", "e", "a", "s", "e", "/", "v", "B", "A", "D">>
RelBPatch == RelB \o <<".", "1">>
RelUndotted == <<"r", "e", "l", "e", "a", "s", "e", "/", "v", "2", "0", "2", "5", "0", "4", "2", "8", ".", "1", "0", "0">>
RelNoV == ReleaseSlash \o BaseB

Cli == <<"c", "l", "i">>
Snap == <<"S">>
Pid321 == <<"3", "2", "1">>
Pid7 == <<"7">>

\* tags: the bare base, its patches (1, 2, the largest int, a digit string
\* beyond the largest int), a base that extends BaseB, a textual variant of
\* BaseB, an older final tag, and a tag of no known shape
PatchTag(n) == BaseB \o <<".">> \o NatDigits(n)
TagExtends == BaseB \o <<"0", ".", "5">>
TagVariant == <<"2", "0", "2", "5", "x", "0", "4", ".", "2", "8", ".", "1", "0", "0", ".", "9">>
TagOld == <<"2", "0", "2", "5", ".", "0", "4", ".", "2", "7", ".", "1", "7">>
TagNoise == <<"n", "o", "t", "-", "a", "-", "c", "a", "l", "v", "e", "r">>

Tags ==
  { BaseB, PatchTag(1), PatchTag(2), PatchTag(MaxInt), PatchTag(MaxInt + 1),
    TagExtends, TagVariant, TagOld, TagNoise }

Snapshots == UNION { [1..n -> Tags] : n \in 0..MaxTags }

LookupFailed == Errorf(<<"l", "o", "o", "k", "u", "p", " ", "f", "a", "i", "l", "e", "d">>)

Found(ts) == [tags |-> ts, err |-> NilErr]

\* a failing lookup returns no tags, or the tags it had read so far
FailedLookups ==
  { [tags |-> ts, err |-> LookupFailed] : ts \in {<<>>, <<PatchTag(1)>>} }

Day(y, m, d) == [year |-> y, month |-> m, day |-> d]

\* the dates time.Now() reads, in the order the clock passes them
WallClock == <<Day(2025, 4, 28), Day(2025, 4, 29)>>

Times == {Day(2025, 4, 28), Day(2025, 4, 27)}

Context(br, pid, tm, def, pre, suf, lk) ==
  [Branch |-> br, PipelineID |-> pid, Time |-> tm,
   Config |-> [DefaultBranch |-> def, Prefix |-> pre, FeatureSuffix |-> suf],
   LookupTags |-> lk]

\* every tag list, under a few configurations
TagSlice ==
  { Context(br, Pid321, Day(2025, 4, 28), def, pre, suf, lk) :
      br \in {Main, FeatPay, RelB, RelBad},
      def \in {Main, RelB},
      pre \in {<<>>, Cli},
      suf \in {<<>>, Snap},
      lk \in {Found(ts) : ts \in Snapshots} \cup FailedLookups }

\* every configuration, under a few tag lists
ConfigSlice ==
  { Context(br, pid, tm, def, pre, suf, lk) :
      br \in {Main, FeatPay, RelB, RelBad, RelBPatch, RelUndotted, RelNoV},
      pid \in {Pid321, Pid7},
      tm \in Times,
      def \in {Main, RelB},
      pre \in {<<>>, Cli, Cli \o <<"-">>, <<"-">>},
      suf \in {<<>>, Snap, <<"-">> \o Snap, <<"-">>},
      lk \in {Found(<<>>), Found(<<TagOld>>), Found(<<TagNoise>>)} }

Contexts == TagSlice \cup ConfigSlice

(* ------------------------------ behaviour ----------------------------- *)

NoResult == [ver |-> <<>>, err |-> NilErr]

\* a BuildContext is constructed; nothing has been called
Init ==
  /\ ctx \in Contexts
  /\ now \in 1..Len(WallClock)
  /\ calls = 0
  /\ kind = typeFeature
  /\ at = now
  /\ first = NoResult
  /\ out = NoResult
  /\ published = 0

\* c.Version(): kind is the value Version switches on, at the reading of the
\* wall clock the call can make, first the result of the first call
Call ==
  /\ calls < MaxCalls
  /\ kind' = classify(ctx.Config.DefaultBranch, ctx.Branch)
  /\ at' = now
  /\ out' = Version(ctx, WallClock[now])
  /\ first' = IF calls = 0 THEN out' ELSE first
  /\ calls' = calls + 1
  /\ UNCHANGED <<ctx, now, published>>

\* the wall clock passes midnight
Tick ==
  /\ now < Len(WallClock)
  /\ now' = now + 1
  /\ UNCHANGED <<ctx, calls, kind, at, first, out, published>>

Next == Call \/ Tick

Spec == Init /\ [][Next]_vars

(* ------------------------------ build sequences ----------------------- *)

\* the contexts of the builds that are followed by further builds
SeqContexts ==
  { Context(br, Pid321, Day(2025, 4, 28), Main, pre, <<>>, Found(ts)) :
      br \in {Main, FeatPay, RelB},
      pre \in {<<>>, Cli},
      ts \in Snapshots }

InitSeq ==
  /\ ctx \in SeqContexts
  /\ now \in 1..Len(WallClock)
  /\ calls = 0
  /\ kind = typeFeature
  /\ at = now
  /\ first = NoResult
  /\ out = NoResult
  /\ published = 0

\* the version a build emitted is published as a tag, and the next build of
\* the branch begins: its lookup returns the tags with the new one
Publish ==
  /\ calls > 0
  /\ out.err.nil
  /\ published < MaxPublish
  /\ ctx' = [ctx EXCEPT !.LookupTags.tags = Append(@, out.ver)]
  /\ published' = published + 1
  /\ calls' = 0
  /\ kind' = typeFeature
  /\ at' = now
  /\ first' = NoResult
  /\ out' = NoResult
  /\ UNCHANGED now

NextSeq == Call \/ Tick \/ Publish

SpecSeq == InitSeq /\ [][NextSeq]_vars

(* ------------------------------ claims -------------------------------- *)

Called == calls > 0

Cfg == ctx.Config

\* the branch begins with the literal release/
BeginsRelease(br) ==
  Len(br) >= Len(ReleaseSlash) /\ \A i \in 1..Len(ReleaseSlash) : br[i] = ReleaseSlash[i]

\* the fields of s between its dots
RECURSIVE Fields(_)
Fields(s) ==
  IF \A i \in 1..Len(s) : s[i] # "." THEN <<s>>
  ELSE LET d == CHOOSE i \in 1..Len(s) : s[i] = "." /\ \A j \in 1..(i - 1) : s[j] # "."
       IN  <<SubSeq(s, 1, d - 1)>> \o Fields(SubSeq(s, d + 1, Len(s)))

NumField(f) == Len(f) >= 1 /\ AllDigits(f)

\* DATE.BUILD: a date YYYY.MM.DD, a dot and a digit string
DateBuildShape(s) ==
  LET f == Fields(s)
  IN  /\ Len(f) = 4
      /\ \A i \in 1..4 : NumField(f[i])
      /\ Len(f[1]) = 4 /\ Len(f[2]) = 2 /\ Len(f[3]) = 2

\* DATE.BUILD.PATCH
DateBuildPatchShape(s) ==
  LET f == Fields(s)
  IN  /\ Len(f) = 5
      /\ \A i \in 1..5 : NumField(f[i])
      /\ Len(f[1]) = 4 /\ Len(f[2]) = 2 /\ Len(f[3]) = 2

\* the branch is release/v<base> in full
ReleaseSyntax(br) ==
  /\ Len(br) > Len(ReleaseV)
  /\ \A i \in 1..Len(ReleaseV) : br[i] = ReleaseV[i]
  /\ DateBuildShape(SubSeq(br, Len(ReleaseV) + 1, Len(br)))

BaseOf(br) == SubSeq(br, Len(ReleaseV) + 1, Len(br))

\* [<prefix>-]<value>, a prefix that already ends in "-" taking no second one
Prefixed(p, v) ==
  IF p = <<>> THEN v
  ELSE IF p[Len(p)] = "-" THEN p \o v
  ELSE p \o <<"-">> \o v

\* the suffix without one leading "-"
Stripped(sfx) == IF sfx # <<>> /\ sfx[1] = "-" THEN Tail(sfx) ELSE sfx

\* <value>[-<suffix>]
Suffixed(v, sfx) == IF Stripped(sfx) = <<>> THEN v ELSE v \o <<"-">> \o Stripped(sfx)

\* the number a digit string denotes
RECURSIVE Number(_)
Number(d) ==
  IF d = <<>> THEN 0 ELSE 10 * Number(SubSeq(d, 1, Len(d) - 1)) + DigitVal(d[Len(d)])

\* the patch numbers of the tags <base>.<digits>
PatchNumbers(base, ts) ==
  { Number(SubSeq(ts[i], Len(base) + 2, Len(ts[i]))) :
      i \in { j \in 1..Len(ts) :
                /\ Len(ts[j]) >= Len(base) + 2
                /\ SubSeq(ts[j], 1, Len(base) + 1) = base \o <<".">>
                /\ AllDigits(SubSeq(ts[j], Len(base) + 2, Len(ts[j]))) } }

Largest(S) == IF S = {} THEN 0 ELSE CHOOSE n \in S : \A m \in S : m <= n

\* the greatest string of a non-empty set
Greatest(S) == CHOOSE g \in S : \A h \in S : ~StrGreater(h, g)

TagSet(P(_)) == { ctx.LookupTags.tags[i] : i \in { j \in 1..Len(ctx.LookupTags.tags) : P(ctx.LookupTags.tags[j]) } }

Failure(e) == [ver |-> <<>>, err |-> e]

Success(v) == [ver |-> v, err |-> NilErr]

\* the same call (same clock reading) under another configuration
WithPrefix(p) == Version([ctx EXCEPT !.Config.Prefix = p], WallClock[at])

WithSuffix(sfx) == Version([ctx EXCEPT !.Config.FeatureSuffix = sfx], WallClock[at])

\* C1: on a valid release branch other than the default branch, Version
\* succeeds with [<prefix>-]<base>.<n>, n being one more than the largest
\* patch number among the tags <base>.<digits>, and 1 without such a tag.
C1_NextPatchIsLargestPlusOne ==
  (/\ Called
   /\ ctx.Branch # Cfg.DefaultBranch
   /\ ReleaseSyntax(ctx.Branch)
   /\ ctx.LookupTags.err.nil)
  => out = Success(Prefixed(Cfg.Prefix,
             BaseOf(ctx.Branch) \o <<".">>
               \o NatDigits(Largest(PatchNumbers(BaseOf(ctx.Branch), ctx.LookupTags.tags)) + 1)))

\* C2: classify returns exactly one kind, in priority order: Default when
\* the branch equals the default-branch name (also when that name begins
\* with release/), else Release when it begins with release/, else Feature,
\* whatever the tag lookup returns.
C2_ClassifyPriority ==
  Called =>
    /\ kind \in {typeDefault, typeRelease, typeFeature}
    /\ (kind = typeDefault) = (ctx.Branch = Cfg.DefaultBranch)
    /\ (kind = typeRelease) = (ctx.Branch # Cfg.DefaultBranch /\ BeginsRelease(ctx.Branch))
    /\ (kind = typeFeature) = (ctx.Branch # Cfg.DefaultBranch /\ ~BeginsRelease(ctx.Branch))

C2_Witness ==
  /\ Called
  /\ ctx.Branch = Cfg.DefaultBranch
  /\ BeginsRelease(ctx.Branch)
  /\ ctx.LookupTags.tags # <<>>
  /\ kind = typeDefault

\* C3: a branch that begins with release/, is not the default branch and is
\* not release/v<base> in full makes Version return the error "invalid
\* release branch: <branch>" and the empty version, whatever the tags are.
C3_InvalidReleaseBranchFails ==
  (/\ Called
   /\ BeginsRelease(ctx.Branch)
   /\ ctx.Branch # Cfg.DefaultBranch
   /\ ~ReleaseSyntax(ctx.Branch))
  => out = Failure(Errorf(InvalidReleaseBranch \o ctx.Branch))

C3_Witness ==
  /\ Called
  /\ ctx.Branch = RelBPatch
  /\ ctx.Branch # Cfg.DefaultBranch
  /\ ctx.LookupTags.tags # <<>>
  /\ ~out.err.nil
  /\ out.ver = <<>>

\* C4: when the tag lookup returns an error on a release build of a valid
\* branch or on a feature build, Version returns that error and no version.
C4_LookupErrorPropagated ==
  (/\ Called
   /\ ~ctx.LookupTags.err.nil
   /\ \/ kind = typeFeature
      \/ kind = typeRelease /\ ReleaseSyntax(ctx.Branch))
  => out = Failure(ctx.LookupTags.err)

\* C5: a feature build whose tag snapshot is non-empty and holds no final
\* tag fails with an error and returns no version.
C5_NoMatchingFinalTagFails ==
  (/\ Called
   /\ kind = typeFeature
   /\ ctx.LookupTags.err.nil
   /\ ctx.LookupTags.tags # <<>>
   /\ \A i \in 1..Len(ctx.LookupTags.tags) :
        /\ ~DateBuildShape(ctx.LookupTags.tags[i])
        /\ ~DateBuildPatchShape(ctx.LookupTags.tags[i]))
  => (~out.err.nil /\ out.ver = <<>>)

\* C6: a feature build with an empty tag snapshot succeeds, and its version
\* begins with [<prefix>-]<date of the timestamp of the BuildContext>.
C6_SeedFromContextTime ==
  (/\ Called
   /\ kind = typeFeature
   /\ ctx.LookupTags.err.nil
   /\ ctx.LookupTags.tags = <<>>)
  => (/\ out.err.nil
      /\ HasPrefix(out.ver, Prefixed(Cfg.Prefix, FormatDate(ctx.Time) \o <<".">>)))

\* C7: two calls of Version with the same BuildContext and the same lookup
\* result return the same version and the same error.
C7_Deterministic == calls >= 2 => out = first

\* the version of a feature build on the base b
FeatureVersion(b) ==
  Success(Prefixed(Cfg.Prefix, Suffixed(b \o <<".">> \o ctx.PipelineID, Cfg.FeatureSuffix)))

SpecFinalTag(t) == DateBuildShape(t) \/ DateBuildPatchShape(t)

C9_Original ==
  Called => WithPrefix(Cfg.Prefix \o <<"-">>) = out

\* C9 (amended): on all three paths an empty prefix leaves the value
\* unchanged and any other prefix gives <prefix>-<value> with one trailing
\* "-" of the configured prefix stripped first; so for every non-empty
\* prefix p that does not itself end in "-", configuring p followed by "-"
\* yields the output of configuring p.
C9_PrefixApplication ==
  (Called /\ out.err.nil) =>
    /\ out.ver = Prefixed(Cfg.Prefix, WithPrefix(<<>>).ver)
    /\ (Cfg.Prefix # <<>> /\ Cfg.Prefix[Len(Cfg.Prefix)] # "-")
         => WithPrefix(Cfg.Prefix \o <<"-">>) = out

C9_Witness ==
  /\ Called
  /\ kind = typeRelease
  /\ Cfg.Prefix = Cli
  /\ out.err.nil
  /\ HasPrefix(out.ver, Cli \o <<"-", "2">>)
  /\ WithPrefix(Cli \o <<"-">>) = out

\* C10 as stated: for every suffix s, configuring "-" followed by s yields
\* the output of configuring s.
C10_Original ==
  Called => WithSuffix(<<"-">> \o Cfg.FeatureSuffix) = out

SuffixValues == {<<>>, Snap, <<"-">>, <<"-">> \o Snap, <<"-", "-">> \o Snap}

\* C10 (amended): a feature build appends -<suffix> exactly when the
\* configured suffix is non-empty after one leading "-" is stripped, so for
\* every suffix s that does not itself begin with "-", configuring "-"
\* followed by s yields the output of configuring s; the outputs of Default
\* and Release builds are the same for every value of FeatureSuffix.
C10_SuffixFeatureOnly ==
  Called =>
    /\ kind = typeFeature =>
         /\ out.ver = Suffixed(WithSuffix(<<>>).ver, Cfg.FeatureSuffix)
         /\ (Cfg.FeatureSuffix = <<>> \/ Cfg.FeatureSuffix[1] # "-")
              => WithSuffix(<<"-">> \o Cfg.FeatureSuffix) = out
    /\ kind # typeFeature => \A sfx \in SuffixValues : WithSuffix(sfx) = out

C10_Witness ==
  /\ Called
  /\ kind = typeFeature
  /\ Cfg.FeatureSuffix = Snap
  /\ HasSuffix(out.ver, <<"-">> \o Snap)
  /\ WithSuffix(<<"-">> \o Snap) = out
  /\ WithSuffix(<<>>) # out

\* C11: a Default build (branch equal to the default-branch name) succeeds
\* with [<prefix>-]<date of the timestamp of the BuildContext>.<pipelineID>,
\* whatever tags the lookup would return and also when it would fail.
C11_DefaultBuild ==
  (Called /\ ctx.Branch = Cfg.DefaultBranch)
  => out = Success(Prefixed(Cfg.Prefix, FormatDate(ctx.Time) \o <<".">> \o ctx.PipelineID))

C11_Witness ==
  /\ Called
  /\ ctx.Branch = Cfg.DefaultBranch
  /\ ~ctx.LookupTags.err.nil
  /\ Cfg.Prefix = Cli
  /\ out.err.nil
  /\ out.ver = Cli \o <<"-">> \o FormatDate(ctx.Time) \o <<".">> \o Pid321

\* t is <base>.<digits> with digits that denote no int
Unparseable(base, t) ==
  /\ Len(t) >= Len(base) + 2
  /\ SubSeq(t, 1, Len(base) + 1) = base \o <<".">>
  /\ AllDigits(SubSeq(t, Len(base) + 2, Len(t)))
  /\ Number(SubSeq(t, Len(base) + 2, Len(t))) > MaxInt

\* the tags of the snapshot without those of unparseable patch
ParseableTags ==
  LET Keep(t) == ~Unparseable(BaseOf(ctx.Branch), t)
  IN  SelectSeq(ctx.LookupTags.tags, Keep)

\* C12: on a release build whose snapshot holds a tag <base>.<digits> with
\* digits that fail integer parsing, the result is the one the snapshot
\* without that tag gives, and the patch is one more than the largest
\* parseable patch of the base.
C12_UnparseablePatchIgnored ==
  (/\ Called
   /\ ctx.Branch # Cfg.DefaultBranch
   /\ ReleaseSyntax(ctx.Branch)
   /\ ctx.LookupTags.err.nil
   /\ ParseableTags # ctx.LookupTags.tags)
  => /\ out = Version([ctx EXCEPT !.LookupTags.tags = ParseableTags], WallClock[at])
     /\ out = Success(Prefixed(Cfg.Prefix,
                BaseOf(ctx.Branch) \o <<".">>
                  \o NatDigits(Largest(PatchNumbers(BaseOf(ctx.Branch), ParseableTags)) + 1)))

LastField(v) == Fields(v)[Len(Fields(v))]

\* the patch number of cur is a number greater than that of prev
PatchIncreases(prev, cur) ==
  /\ NumField(LastField(prev))
  /\ NumField(LastField(cur))
  /\ Number(LastField(cur)) > Number(LastField(prev))

\* C13: the version a Release build emits is no tag of the snapshot it
\* scanned, with or without a prefix; and when each emitted version is
\* published before the next build of the branch, the patch number of a
\* build is greater than that of the build before it.
C13_NoCollision ==
  (Called /\ kind = typeRelease /\ out.err.nil) =>
    /\ \A i \in 1..Len(ctx.LookupTags.tags) : ctx.LookupTags.tags[i] # out.ver
    /\ published > 0
         => PatchIncreases(ctx.LookupTags.tags[Len(ctx.LookupTags.tags)], out.ver)

====
